---- MODULE Spec2Model ----
(***************************************************************************)
(* Model of to_bin.py, the PlatformIO/SCons post-build hook that converts  *)
(* the linked firmware ELF into a raw binary with the object-copy tool.    *)
(*                                                                         *)
(* Strings are sequences of lexical atoms: construction-variable           *)
(* references ("$BUILD_DIR"), separators ("/", " ") and literal fragments. *)
(***************************************************************************)
EXTENDS Integers, Sequences, FiniteSets, TLC

SP == " "

RECURSIVE Join(_, _)
\* sep.join(words) of Python: the words with sep between consecutive ones.
Join(words, sep) ==
  IF words = <<>> THEN <<>>
  ELSE IF Len(words) = 1 THEN words[1]
  ELSE words[1] \o sep \o Join(Tail(words), sep)

\* Variants of the list with one slip each.
\* "-" in front of the command: its exit status is ignored.
CmdWordsIgnore ==
  << <<"-", "$OBJCOPY">>, <<"-O">>, <<"binary">>, <<"-R">>, <<".eeprom">>,
     <<"$BUILD_DIR", "/", "${PROGNAME}", ".elf">>,
     <<"$BUILD_DIR", "/", "${PROGNAME}", ".bin">> >>

\* No -R .eeprom.
CmdWordsKeepEeprom ==
  << <<"$OBJCOPY">>, <<"-O">>, <<"binary">>,
     <<"$BUILD_DIR", "/", "${PROGNAME}", ".elf">>,
     <<"$BUILD_DIR", "/", "${PROGNAME}", ".bin">> >>

\* No output path: the tool then rewrites its input file.
CmdWordsInPlace ==
  << <<"$OBJCOPY">>, <<"-O">>, <<"binary">>, <<"-R">>, <<".eeprom">>,
     <<"$BUILD_DIR", "/", "${PROGNAME}", ".elf">> >>

\* Input and output paths in the wrong order.
CmdWordsSwapped ==
  << <<"$OBJCOPY">>, <<"-O">>, <<"binary">>, <<"-R">>, <<".eeprom">>,
     <<"$BUILD_DIR", "/", "${PROGNAME}", ".bin">>,
     <<"$BUILD_DIR", "/", "${PROGNAME}", ".elf">> >>

\* Output path without the build directory.
CmdWordsFlatOutput ==
  << <<"$OBJCOPY">>, <<"-O">>, <<"binary">>, <<"-R">>, <<".eeprom">>,
     <<"$BUILD_DIR", "/", "${PROGNAME}", ".elf">>,
     <<"${PROGNAME}", ".bin">> >>

\* The list handed to " ".join(...) (to_bin.py lines 4-7).
CmdWords ==
  << <<"$OBJCOPY">>, <<"-O">>, <<"binary">>, <<"-R">>, <<".eeprom">>,
     <<"$BUILD_DIR", "/", "${PROGNAME}", ".elf">>,
     <<"$BUILD_DIR", "/", "${PROGNAME}", ".bin">> >>

\* The command string of the action: " ".join([...]).
CmdTemplate == Join(CmdWords, <<SP>>)

\* A description that names the input instead of the output.
MsgTemplateElf == <<"Building", SP, "$BUILD_DIR", "/", "${PROGNAME}", ".elf">>

\* The second argument of env.VerboseAction: the description of the action.
MsgTemplate == <<"Building", SP, "$BUILD_DIR", "/", "${PROGNAME}", ".bin">>

\* The first argument of env.AddPostAction: the target the action hangs on.
HookTarget == <<"$BUILD_DIR", "/", "${PROGNAME}", ".elf">>

\* The action registered with AddPreAction instead.
HookKindPre == "pre"

\* The registration call: AddPostAction appends to the target's post-actions.
HookKind == "post"

----------------------------------------------------------------------------
(* Construction environments the script is loaded into.                     *)

ToolName == <<"objcopy">>

BuildDirs ==
  { <<"build", "/", "teensy41">>,
    <<"build", "/", "teensy40">>,
    <<"my", SP, "proj", "/", "build">> }

ProgNames == { <<"firmware">>, <<"program">> }

Envs == [BUILD_DIR : BuildDirs, PROGNAME : ProgNames]

\* Value of one atom under environment e: a variable reference expands to
\* the variable's value, anything else stands for itself.
Expand(a, e) ==
  CASE a = "$BUILD_DIR"  -> e.BUILD_DIR
    [] a = "${PROGNAME}" -> e.PROGNAME
    [] a = "$OBJCOPY"    -> ToolName
    [] OTHER             -> <<a>>

RECURSIVE Subst(_, _)
\* env.subst: every variable reference of the string replaced by its value.
Subst(s, e) ==
  IF s = <<>> THEN <<>> ELSE Expand(Head(s), e) \o Subst(Tail(s), e)

\* Index of the first blank of s, Len(s) + 1 when there is none.
FirstBlank(s) ==
  IF \E i \in 1..Len(s) : s[i] = SP
  THEN CHOOSE i \in 1..Len(s) : s[i] = SP /\ \A j \in 1..(i - 1) : s[j] # SP
  ELSE Len(s) + 1

RECURSIVE SplitArgs(_)
\* The words of a command line: the string action is a single string, so the
\* command line is cut at white space, inside expanded values as well.
SplitArgs(s) ==
  IF s = <<>> THEN <<>>
  ELSE IF Head(s) = SP THEN SplitArgs(Tail(s))
  ELSE LET n == FirstBlank(s)
       IN  <<SubSeq(s, 1, n - 1)>> \o SplitArgs(SubSeq(s, n + 1, Len(s)))

\* Leading "@" and "-" of a command string are flags of the string action,
\* not part of the command: "-" makes the build ignore the exit status.
RECURSIVE StripPrefix(_)
StripPrefix(s) ==
  IF s # <<>> /\ Head(s) \in {"@", "-"} THEN StripPrefix(Tail(s)) ELSE s

RECURSIVE IgnoresStatus(_)
IgnoresStatus(s) ==
  /\ s # <<>>
  /\ Head(s) \in {"@", "-"}
  /\ (Head(s) = "-" \/ IgnoresStatus(Tail(s)))

\* The argument vector the action executes in environment e.
Argv(e) == SplitArgs(Subst(StripPrefix(CmdTemplate), e))

\* The line the action prints in a normal (non-verbose) build.
MsgLine(e) == Subst(MsgTemplate, e)

\* The command line, which the verbose build prints instead.
CmdLine(e) == Subst(StripPrefix(CmdTemplate), e)

ElfPath(e) == e.BUILD_DIR \o <<"/">> \o e.PROGNAME \o <<".elf">>
BinPath(e) == e.BUILD_DIR \o <<"/">> \o e.PROGNAME \o <<".bin">>

----------------------------------------------------------------------------
(* Linked images and the object-copy tool.                                  *)

\* A section of a linked image: name, load address, whether it is a
\* loadable section with contents, and its bytes (tagged with their origin).
Section(n, a, l, vals) ==
  [name |-> n, lma |-> a, load |-> l,
   data |-> [i \in 1..Len(vals) |-> [sec |-> n, val |-> vals[i]]]]

\* .eeprom above the program image, a .bss without contents.
ImageA ==
  << Section(".text", 0, TRUE, <<1, 2>>), Section(".data", 2, TRUE, <<3>>),
     Section(".bss", 3, FALSE, <<0>>), Section(".eeprom", 6, TRUE, <<9>>) >>

\* .eeprom between .text and .data.
ImageB ==
  << Section(".text", 0, TRUE, <<4>>), Section(".eeprom", 1, TRUE, <<9>>),
     Section(".data", 2, TRUE, <<5>>) >>

\* No .eeprom section at all.
ImageC ==
  << Section(".text", 0, TRUE, <<6>>), Section(".data", 1, TRUE, <<7>>) >>

Images == {ImageA, ImageB, ImageC}

Absent == [kind |-> "none"]
Elf(img) == [kind |-> "elf", sections |-> img]
Bin(bytes) == [kind |-> "bin", bytes |-> bytes]

GapByte == [sec |-> "gap", val |-> 0]

Min(S) == CHOOSE x \in S : \A y \in S : x <= y
Max(S) == CHOOSE x \in S : \A y \in S : x >= y

\* Sections of img that end up in the output: loadable and not removed.
Kept(img, removed) ==
  {i \in DOMAIN img : img[i].load /\ img[i].name \notin removed}

\* -O binary: a memory dump of the kept sections from the lowest load
\* address to the highest, gaps filled with zero bytes.
RawBinary(img, removed) ==
  LET keep == Kept(img, removed)
  IN  IF keep = {} THEN <<>>
      ELSE LET lo == Min({img[i].lma : i \in keep})
               hi == Max({img[i].lma + Len(img[i].data) : i \in keep})
           IN  [k \in 1..(hi - lo) |->
                 LET a == lo + k - 1
                     at == {i \in keep :
                              img[i].lma <= a /\ a < img[i].lma + Len(img[i].data)}
                 IN  IF at = {} THEN GapByte
                     ELSE LET i == CHOOSE i \in at : TRUE
                          IN  img[i].data[a - img[i].lma + 1]]

\* The same image without the removed sections (no -O: the format is kept).
StripSections(img, removed) ==
  LET F[k \in 0..Len(img)] ==
        IF k = 0 THEN <<>>
        ELSE IF img[k].name \in removed THEN F[k - 1]
        ELSE Append(F[k - 1], img[k])
  IN  F[Len(img)]

RECURSIVE ParseOpts(_, _)
\* The tool's command line after its name: -O <format>, -R <section>,
\* everything else a file name.
ParseOpts(args, acc) ==
  IF args = <<>> THEN acc
  ELSE IF Head(args) \in {<<"-O">>, <<"-R">>}
  THEN IF Len(args) < 2 THEN [acc EXCEPT !.usage = TRUE]
       ELSE IF Head(args) = <<"-O">>
       THEN ParseOpts(SubSeq(args, 3, Len(args)), [acc EXCEPT !.format = args[2]])
       ELSE ParseOpts(SubSeq(args, 3, Len(args)),
                      [acc EXCEPT !.removed = @ \cup {args[2]}])
  ELSE ParseOpts(Tail(args), [acc EXCEPT !.files = Append(@, Head(args))])

NoOpts == [format |-> <<>>, removed |-> {}, files |-> <<>>, usage |-> FALSE]

\* Section names as the images spell them.
SectionName(w) == IF Len(w) = 1 THEN w[1] ELSE ""

Read(f, p) == IF p \in DOMAIN f THEN f[p] ELSE Absent

\* The file system with path p holding content c.
WriteFile(f, p, c) == [q \in DOMAIN f \cup {p} |-> IF q = p THEN c ELSE f[q]]

\* One run of the command argv on file system f; installed says whether the
\* tool is there, ioerr whether the copy itself fails.  The result is the
\* exit status, the file system afterwards and the paths written or removed.
\* The tool gives up on a bad command line before it touches a file; once it
\* has its file names it removes the output file on any failure.
Execute(argv, f, installed, ioerr) ==
  IF argv = <<>> \/ argv[1] # ToolName \/ ~installed
  THEN [status |-> 127, fs |-> f, wrote |-> {}]
  ELSE LET o == ParseOpts(Tail(argv), NoOpts)
       IN  IF o.usage \/ Len(o.files) = 0 \/ Len(o.files) > 2
           THEN [status |-> 1, fs |-> f, wrote |-> {}]
           ELSE LET in  == o.files[1]
                    out == IF Len(o.files) = 2 THEN o.files[2] ELSE in
                    src == Read(f, in)
                    rm  == {SectionName(w) : w \in o.removed}
                IN  IF src.kind # "elf" \/ ioerr
                    THEN IF out = in
                         THEN [status |-> 1, fs |-> f, wrote |-> {}]
                         ELSE [status |-> 1, fs |-> WriteFile(f, out, Absent),
                               wrote |-> {out}]
                    ELSE [status |-> 0,
                          fs |-> WriteFile(f, out,
                                   IF o.format = <<"binary">>
                                   THEN Bin(RawBinary(src.sections, rm))
                                   ELSE Elf(StripSections(src.sections, rm))),
                          wrote |-> {out}]

----------------------------------------------------------------------------
(* The build pipeline the hook is registered in.                            *)

\* Build processes that may run side by side, and how many builds are
\* started in all.
Procs == {1, 2}
MaxBuilds == 2

Modes == {"normal", "verbose", "silent"}

\* The program target of the build: the linked executable.
LinkTarget(e) == ElfPath(e)

\* The actions the executor of target t runs, in order: the pre-actions,
\* the target's own builder action, the post-actions.  The hook's action is
\* attached to the target its first argument names.
ActionList(e, t) ==
  LET hooked == Subst(HookTarget, e) = t
  IN  (IF hooked /\ HookKind = "pre" THEN <<"to_bin">> ELSE <<>>)
      \o (IF t = LinkTarget(e) THEN <<"link">> ELSE <<>>)
      \o (IF hooked /\ HookKind = "post" THEN <<"to_bin">> ELSE <<>>)

\* What the build prints before it executes the action: VerboseAction gives
\* the action its description only in a non-verbose build (a verbose build
\* prints the command line), and a silent build prints nothing.
Printed(e, m) ==
  CASE m = "normal"  -> <<MsgLine(e)>>
    [] m = "verbose" -> <<CmdLine(e)>>
    [] OTHER         -> <<>>

VARIABLES
  active,     \* the build processes of this run of the model
  env,        \* env[b]: the construction environment of process b
  mode,       \* how much the builds print
  installed,  \* whether $OBJCOPY names a program that can be started
  fs,         \* the file system: path -> content
  phase,      \* phase[b]: "idle", "exec", "running", "done", "failed"
  idx,        \* idx[b]: position in the executor's action list
  log,        \* log[b]: lines printed for the action in the current build
  started,    \* builds started so far
  links,      \* links[b]: link steps that succeeded
  runs,       \* runs[b]: invocations of the conversion action
  toolFailed, \* toolFailed[b]: the tool failed in the current build
  okIn,       \* okIn[b]: input of the last conversion that succeeded
  okOut,      \* okOut[b]: output it wrote
  writers,    \* <<path, b>>: process b's action wrote or removed path
  fault,      \* fault[b]: the running command meets an I/O error
  again       \* again[b]: the last conversion succeeded on the same input
              \*           as the successful one before it

vars == <<active, env, mode, installed, fs, phase, idx, log, started, links,
          runs, toolFailed, okIn, okOut, writers, fault, again>>

Paths == {ElfPath(e) : e \in Envs} \cup {BinPath(e) : e \in Envs}

Actions(b) == ActionList(env[b], LinkTarget(env[b]))

Current(b) ==
  IF phase[b] = "exec" /\ idx[b] <= Len(Actions(b)) THEN Actions(b)[idx[b]]
  ELSE "none"

InitCommon ==
  /\ env \in [Procs -> Envs]
  /\ mode \in Modes
  /\ installed \in BOOLEAN
  /\ fs = [p \in Paths |-> Absent]
  /\ phase = [b \in Procs |-> "idle"]
  /\ idx = [b \in Procs |-> 1]
  /\ log = [b \in Procs |-> <<>>]
  /\ started = 0
  /\ links = [b \in Procs |-> 0]
  /\ runs = [b \in Procs |-> 0]
  /\ toolFailed = [b \in Procs |-> FALSE]
  /\ okIn = [b \in Procs |-> Absent]
  /\ okOut = [b \in Procs |-> Absent]
  /\ writers = {}
  /\ fault = [b \in Procs |-> FALSE]
  /\ again = [b \in Procs |-> FALSE]

\* One build process.
Init ==
  /\ active = {1}
  /\ InitCommon
  /\ env[2] = env[1]

\* Two build processes building different targets side by side.
InitPar ==
  /\ active = Procs
  /\ InitCommon
  /\ env[1] # env[2]
  /\ mode = "normal"
  /\ installed

\* A build starts and finds its target out of date: the target file is
\* removed and the executor starts on its action list.
StartBuild(b) ==
  /\ b \in active
  /\ phase[b] \in {"idle", "done", "failed"}
  /\ started < MaxBuilds
  /\ started' = started + 1
  /\ phase' = [phase EXCEPT ![b] = "exec"]
  /\ idx' = [idx EXCEPT ![b] = 1]
  /\ fs' = WriteFile(fs, LinkTarget(env[b]), Absent)
  /\ log' = [log EXCEPT ![b] = <<>>]
  /\ toolFailed' = [toolFailed EXCEPT ![b] = FALSE]
  /\ UNCHANGED <<active, env, mode, installed, links, runs, okIn, okOut,
                 writers, fault, again>>

\* A build starts after a successful one and finds its target up to date:
\* nothing is executed.
UpToDate(b) ==
  /\ b \in active
  /\ phase[b] = "done"
  /\ Read(fs, LinkTarget(env[b])).kind = "elf"
  /\ started < MaxBuilds
  /\ started' = started + 1
  /\ log' = [log EXCEPT ![b] = <<>>]
  /\ UNCHANGED <<active, env, mode, installed, fs, phase, idx, links, runs,
                 toolFailed, okIn, okOut, writers, fault, again>>

\* The link step succeeds and leaves a linked image.
LinkOk(b) ==
  /\ Current(b) = "link"
  /\ \E img \in Images : fs' = WriteFile(fs, LinkTarget(env[b]), Elf(img))
  /\ links' = [links EXCEPT ![b] = @ + 1]
  /\ idx' = [idx EXCEPT ![b] = @ + 1]
  /\ UNCHANGED <<active, env, mode, installed, phase, log, started, runs,
                 toolFailed, okIn, okOut, writers, fault, again>>

\* The link step fails: the build stops.
LinkFail(b) ==
  /\ Current(b) = "link"
  /\ phase' = [phase EXCEPT ![b] = "failed"]
  /\ UNCHANGED <<active, env, mode, installed, fs, idx, log, started, links,
                 runs, toolFailed, okIn, okOut, writers, fault, again>>

\* The executor reaches the conversion action: it prints, then starts the
\* command.
ActionStart(b) ==
  /\ Current(b) = "to_bin"
  /\ log' = [log EXCEPT ![b] = @ \o Printed(env[b], mode)]
  /\ phase' = [phase EXCEPT ![b] = "running"]
  /\ runs' = [runs EXCEPT ![b] = @ + 1]
  /\ \E io \in BOOLEAN : fault' = [fault EXCEPT ![b] = io]
  /\ UNCHANGED <<active, env, mode, installed, fs, idx, started, links,
                 toolFailed, okIn, okOut, writers, again>>

\* The command ends.  A non-zero exit status stops the build unless the
\* command string asks for it to be ignored.
ActionFinish(b) ==
  /\ phase[b] = "running"
  /\ LET r   == Execute(Argv(env[b]), fs, installed, fault[b])
         ok  == r.status = 0
         in  == Read(fs, ElfPath(env[b]))
     IN  /\ fs' = r.fs
         /\ writers' = writers \cup {<<p, b>> : p \in r.wrote}
         /\ toolFailed' = [toolFailed EXCEPT ![b] = ~ok]
         /\ okIn' = IF ok THEN [okIn EXCEPT ![b] = in] ELSE okIn
         /\ okOut' = IF ok THEN [okOut EXCEPT ![b] = Read(r.fs, BinPath(env[b]))]
                     ELSE okOut
         /\ again' = [again EXCEPT ![b] = ok /\ okIn[b] = in]
         /\ IF ok \/ IgnoresStatus(CmdTemplate)
            THEN /\ phase' = [phase EXCEPT ![b] = "exec"]
                 /\ idx' = [idx EXCEPT ![b] = @ + 1]
            ELSE /\ phase' = [phase EXCEPT ![b] = "failed"]
                 /\ idx' = idx
  /\ fault' = [fault EXCEPT ![b] = FALSE]
  /\ UNCHANGED <<active, env, mode, installed, log, started, links, runs>>

\* The executor has run its whole list: the build succeeded.
Finish(b) ==
  /\ phase[b] = "exec"
  /\ idx[b] > Len(Actions(b))
  /\ phase' = [phase EXCEPT ![b] = "done"]
  /\ UNCHANGED <<active, env, mode, installed, fs, idx, log, started, links,
                 runs, toolFailed, okIn, okOut, writers, fault, again>>

\* Something outside the build removes the linked image before the
\* conversion action gets to it.
RemoveElf(b) ==
  /\ Current(b) = "to_bin"
  /\ Read(fs, ElfPath(env[b])).kind = "elf"
  /\ fs' = WriteFile(fs, ElfPath(env[b]), Absent)
  /\ UNCHANGED <<active, env, mode, installed, phase, idx, log, started, links,
                 runs, toolFailed, okIn, okOut, writers, fault, again>>

Next ==
  \E b \in Procs :
    \/ StartBuild(b)
    \/ UpToDate(b)
    \/ LinkOk(b)
    \/ LinkFail(b)
    \/ ActionStart(b)
    \/ ActionFinish(b)
    \/ Finish(b)
    \/ RemoveElf(b)

Spec == Init /\ [][Next]_vars

SpecPar == InitPar /\ [][Next]_vars

----------------------------------------------------------------------------
(* Properties.                                                              *)

Range(q) == {q[i] : i \in DOMAIN q}

\* The argument vector the specification describes: the tool, the fixed
\* options, then the input and the output path as one argument each.
SpecArgv(e) ==
  << ToolName, <<"-O">>, <<"binary">>, <<"-R">>, <<".eeprom">>,
     ElfPath(e), BinPath(e) >>

\* The step in which process b's command ends.
Finishing(b) == phase[b] = "running" /\ phase'[b] # "running"

\* The step in which process b's command ends with exit status 0.
Succeeding(b) == Finishing(b) /\ ~toolFailed'[b]

\* No blank in the build directory or the program name.
NoBlank(e) == SP \notin Range(e.BUILD_DIR) /\ SP \notin Range(e.PROGNAME)

\* C1: the conversion action runs exactly once for each successful link,
\* only after that link step has completed, and never without one: the
\* invocations never outnumber the successful links, at most the link just
\* completed is still waiting for its invocation, and when the build is
\* over every successful link has had its one invocation.
C1_OncePerLink ==
  \A b \in active :
    /\ runs[b] <= links[b]
    /\ links[b] <= runs[b] + 1
    /\ (phase[b] \in {"idle", "running", "done", "failed"} => runs[b] = links[b])

C1_Witness ==
  \E b \in active : phase[b] = "done" /\ links[b] = 2 /\ runs[b] = 2

\* C2: for every build directory and program name, the command the action
\* executes is the tool followed by -O binary -R .eeprom, the input path and
\* the output path, each path one argument.
C2_ExactCommand ==
  \A b \in active : phase[b] = "running" => Argv(env[b]) = SpecArgv(env[b])

\* C3: when the tool is missing or exits non-zero the build ends failed:
\* the action is not invoked again in that build and the build never
\* succeeds.
C3_FailureHalts ==
  /\ [](\A b \in active : toolFailed[b] => phase[b] = "failed")
  /\ [][\A b \in active : toolFailed[b] /\ toolFailed'[b] => runs'[b] = runs[b]]_vars

C3_Witness ==
  \E b \in active : toolFailed[b] /\ phase[b] = "failed" /\ ~installed

\* C4: the output of a successful run holds no byte of the input's .eeprom
\* section: every byte of it is a byte of a loadable section other than
\* .eeprom (or fills a gap between two of them), and every byte of those
\* sections is in it.
C4_NoEeprom ==
  \A b \in active :
    okOut[b].kind = "bin" =>
      LET secs == okIn[b].sections
          good == {i \in DOMAIN secs : secs[i].load /\ secs[i].name # ".eeprom"}
      IN  /\ \A x \in Range(okOut[b].bytes) :
                /\ x.sec # ".eeprom"
                /\ x = GapByte \/ \E i \in good : x \in Range(secs[i].data)
          /\ \A i \in good : Range(secs[i].data) \subseteq Range(okOut[b].bytes)

C4_Witness ==
  \E b \in active :
    /\ okOut[b].kind = "bin"
    /\ okOut[b].bytes # <<>>
    /\ \E i \in DOMAIN okIn[b].sections : okIn[b].sections[i].name = ".eeprom"

\* C5: for every valid linked executable, the output file the action leaves
\* equals the one a direct invocation of the tool with the arguments
\* -O binary -R .eeprom <input> <output> leaves on the same input.
C5_PassThrough ==
  [][\A b \in active :
       Finishing(b) /\ Read(fs, ElfPath(env[b])).kind = "elf" =>
         Read(fs', BinPath(env[b]))
           = Read(Execute(SpecArgv(env[b]), fs, installed, fault[b]).fs,
                  BinPath(env[b]))]_vars

\* C6: a run on the input of the previous successful run writes the output
\* that run wrote, and when that output is still in place the run leaves the
\* files as they are.
C6_Idempotent ==
  [][\A b \in active :
       Succeeding(b) /\ okIn[b] = Read(fs, ElfPath(env[b])) =>
         /\ Read(fs', BinPath(env[b])) = okOut[b]
         /\ (Read(fs, BinPath(env[b])) = okOut[b] => fs' = fs)]_vars

C6_Witness ==
  \E b \in active : again[b] /\ Read(fs, BinPath(env[b])) = okOut[b]

\* C7 as claimed: when the input does not exist the action fails and the
\* output path is left as it was.
C7_OutputUntouched ==
  [][\A b \in active :
       Finishing(b) /\ Read(fs, ElfPath(env[b])) = Absent =>
         /\ phase'[b] = "failed"
         /\ Read(fs', BinPath(env[b])) = Read(fs, BinPath(env[b]))]_vars

\* C7 as amended: when the input does not exist the action fails and no
\* output file is created; an output file of an earlier run is removed when
\* the tool was started with its two file names, and is left untouched when
\* the tool could not be started or rejected its command line.
C7_NoOutput ==
  [][\A b \in active :
       Finishing(b) /\ Read(fs, ElfPath(env[b])) = Absent =>
         /\ phase'[b] = "failed"
         /\ Read(fs', BinPath(env[b]))
              = IF installed /\ NoBlank(env[b]) THEN Absent
                ELSE Read(fs, BinPath(env[b]))]_vars

C7_Witness ==
  \E b \in active :
    /\ phase[b] = "failed"
    /\ toolFailed[b]
    /\ Read(fs, ElfPath(env[b])) = Absent
    /\ okOut[b].kind = "bin"
    /\ Read(fs, BinPath(env[b])) = Absent

\* C8: the action changes no file other than the output path: printing
\* changes none at all, and the command, successful or not, leaves the input
\* and every other file as they were.
C8_Frame ==
  [][\A b \in active :
       /\ (phase[b] = "exec" /\ phase'[b] = "running" => fs' = fs)
       /\ (Finishing(b) =>
             \A p \in (DOMAIN fs \cup DOMAIN fs') \ {BinPath(env[b])} :
               Read(fs', p) = Read(fs, p))]_vars

C8_Witness ==
  \E b \in active :
    /\ phase[b] = "done"
    /\ Read(fs, ElfPath(env[b])).kind = "elf"
    /\ Read(fs, BinPath(env[b])).kind = "bin"

\* The line "Building <build_dir>/<program_name>.bin".
BuildingLine(e) == <<"Building", SP>> \o BinPath(e)

\* A command of process b is running, or has failed in the current build.
Invoked(b) == phase[b] = "running" \/ toolFailed[b]

\* C9 as claimed: in every run the line "Building <build_dir>/<name>.bin"
\* has been printed by the time the tool is started, also when the tool
\* then fails.
C9_LineAlways ==
  \A b \in active :
    Invoked(b) => BuildingLine(env[b]) \in Range(log[b])

\* C9 as amended: in a build that is neither verbose nor silent, the line
\* has been printed by the time the tool is started, also when the tool
\* then fails.
C9_LineInNormalBuild ==
  \A b \in active :
    mode = "normal" /\ Invoked(b) => BuildingLine(env[b]) \in Range(log[b])

C9_Witness ==
  \E b \in active :
    /\ mode = "normal"
    /\ toolFailed[b]
    /\ BuildingLine(env[b]) \in Range(log[b])

\* C10: builds of different targets side by side: a process has at most the
\* one invocation for its latest link in flight, no path is written by the
\* actions of two processes, and the output of every successful build is
\* the conversion of the image that build linked.
C10_Isolation ==
  /\ \A b \in active : phase[b] = "running" => runs[b] = links[b]
  /\ \A w1, w2 \in writers : w1[1] = w2[1] => w1[2] = w2[2]
  /\ \A b \in active :
       phase[b] = "done" =>
         /\ okIn[b].kind = "elf"
         /\ okIn[b] = Read(fs, ElfPath(env[b]))
         /\ Read(fs, BinPath(env[b]))
              = Bin(RawBinary(okIn[b].sections, {".eeprom"}))

C10_Witness ==
  /\ phase[1] = "done"
  /\ phase[2] = "done"
  /\ <<BinPath(env[1]), 1>> \in writers
  /\ <<BinPath(env[2]), 2>> \in writers
  /\ env[1].PROGNAME = env[2].PROGNAME
====
